---- MODULE Spec2Model ----
(***************************************************************************)
(* HD44780 character-LCD driver (simple_hd44780): the PCF8574 I2C backpack *)
(* interface (interfaces/_4_bit_pcf8574.py), the initialisation sequence   *)
(* of the interface base class (interfaces/base.py) and the LCD class      *)
(* (lcd.py).                                                               *)
(*                                                                         *)
(* Every operation of the driver is one action.  What an operation puts on *)
(* the I2C bus is recorded, in order, in `trace`: <<"w", b>> is            *)
(* bus.write_byte(addr, b) and <<"d", n>> is a requested delay of n        *)
(* microseconds.  The controller samples RS, RW and D7..D4 at a falling    *)
(* edge of the Enable line (interfaces/base.py, lines 32-34), so what the  *)
(* controller latches is computed from the bytes on the bus, not from the  *)
(* driver's intentions.                                                    *)
(*                                                                         *)
(* Python's bool is an int: flags and boolean arguments are 0 or 1.        *)
(***************************************************************************)
EXTENDS Integers, Sequences, FiniteSets, TLC

VARIABLES
    byte,                      \* PCF8574I2CBackpackInterface._byte
    wiring,                    \* its rs_bit_pos, rw_bit_pos, e_bit_pos, a_bit_pos and data_bit_pos
    wire0,                     \* the byte on the expander's pins when the last operation began
    trace,                     \* bus writes and delays of the last operation, in order
    op,                        \* the last operation: <<name, arguments>>
    err,                       \* the exception the last operation raised, or "none"
    prev,                      \* what the controller saw of the run before, when the last operation repeats it
    self0,                     \* the LCD's attributes when the last operation began
    made,                      \* an LCD object has been constructed
    setup,                     \* <<initialize() was run, operational_mode, matrix_size>> of that construction
    lines,                     \* LCD._lines
    max_index,                 \* LCD.max_index
    curr_index,                \* LCD._curr_index
    backlight_enabled,         \* LCD._backlight_enabled
    display_enabled,           \* LCD._display_enabled
    cursor_enabled,            \* LCD._cursor_enabled
    cursor_blinking_enabled,   \* LCD._cursor_blinking_enabled
    text,                      \* LCD._text: <<"None">> or <<"str", characters>>
    calls                      \* the send_data calls running at once: each caller's position and locals

vars == <<byte, wiring, wire0, trace, op, err, prev, self0, made, setup, lines, max_index, curr_index,
          backlight_enabled, display_enabled, cursor_enabled,
          cursor_blinking_enabled, text, calls>>

lcdvars == <<made, setup, lines, max_index, curr_index, backlight_enabled,
             display_enabled, cursor_enabled, cursor_blinking_enabled, text>>

(***************************************************************************)
(* Bounds of the model.                                                    *)
(***************************************************************************)
\* write_char stops advancing the logical cursor here (the code has no limit).
MaxCursor == 2
\* Largest index argument tried: past the last slot (31) of a 2-line display.
MaxIndexArg == 33
\* Longest text written by write_text and the text setter.
MaxTextLen == 2
\* Largest number of bus writes let through before the bus fails: the longest
\* operation (construction with the 4-bit handshake) makes 75.
MaxBudget == 76

(***************************************************************************)
(* Python's integer operators on naturals.                                 *)
(***************************************************************************)
\* a << n
Shl(a, n) == a * 2^n

\* a >> n
Shr(a, n) == a \div 2^n

RECURSIVE AndBits(_, _)
\* a & b, bit by bit
AndBits(a, b) ==
    IF a = 0 \/ b = 0 THEN 0
    ELSE (IF a % 2 = 1 /\ b % 2 = 1 THEN 1 ELSE 0) + 2 * AndBits(a \div 2, b \div 2)

RECURSIVE OrBits(_, _)
\* a | b, bit by bit
OrBits(a, b) ==
    IF a = 0 THEN b
    ELSE IF b = 0 THEN a
    ELSE (IF a % 2 = 1 \/ b % 2 = 1 THEN 1 ELSE 0) + 2 * OrBits(a \div 2, b \div 2)

\* The two operators on nibbles, tabulated once.
AndNibble == [a \in 0..15 |-> [b \in 0..15 |-> AndBits(a, b)]]

OrNibble == [a \in 0..15 |-> [b \in 0..15 |-> OrBits(a, b)]]

RECURSIVE BitAnd(_, _)
\* a & b, nibble by nibble
BitAnd(a, b) ==
    IF a = 0 \/ b = 0 THEN 0
    ELSE AndNibble[a % 16][b % 16] + 16 * BitAnd(a \div 16, b \div 16)

RECURSIVE BitOr(_, _)
\* a | b, nibble by nibble
BitOr(a, b) ==
    IF a = 0 THEN b
    ELSE IF b = 0 THEN a
    ELSE OrNibble[a % 16][b % 16] + 16 * BitOr(a \div 16, b \div 16)

\* b & ~(1 << pos): Python's ~ is of unbounded width, so exactly bit pos is cleared
ClearBit(b, pos) == IF Shr(b, pos) % 2 = 1 THEN b - Shl(1, pos) ELSE b

\* bit pos of b
Bit(b, pos) == Shr(b, pos) % 2

(***************************************************************************)
(* PCF8574I2CBackpackInterface: the pin assignment (constructor defaults). *)
(***************************************************************************)
rs_bit_pos == 0
rw_bit_pos == 1
e_bit_pos == 2
a_bit_pos == 3

\* The constructor's default arguments, data_bits = [4, 5, 6, 7] included.
DefaultWiring ==
    [rs_bit_pos |-> rs_bit_pos, rw_bit_pos |-> rw_bit_pos, e_bit_pos |-> e_bit_pos,
     a_bit_pos |-> a_bit_pos, data_bit_pos |-> <<4, 5, 6, 7>>]

(***************************************************************************)
(* The interface's methods, as functions of the interface state            *)
(* io = [byte |-> _byte, wiring |-> the pin positions,                     *)
(*       out |-> what has been put on the bus so far,                      *)
(*       budget |-> how many more bus writes succeed (None: all of them),  *)
(*       raised |-> bus.write_byte has raised and the exception is in      *)
(*                  flight].                                               *)
(* No method of the driver catches an exception, so once one is in flight  *)
(* no later statement of the operation runs.                               *)
(***************************************************************************)
None == 0 - 1

\* Statement sequencing: Do(a, Rest) is the rest of a method run in the state a
\* that its earlier statements left, unless they raised.
Do(a, Rest(_)) == IF a.raised THEN a ELSE Rest(a)

\* BaseInterface.delay(microseconds)
delay(io, microseconds) ==
    IF io.raised THEN io ELSE [io EXCEPT !.out = Append(@, <<"d", microseconds>>)]

\* _write() catching the bus error and writing the byte again.
_write_retrying(io) ==
    IF io.raised THEN io
    ELSE IF io.budget = 0
         THEN delay([io EXCEPT !.out = Append(Append(@, <<"x", io.byte>>), <<"w", io.byte>>),
                               !.budget = None], 1)
    ELSE delay([io EXCEPT !.out = Append(@, <<"w", io.byte>>),
                          !.budget = IF @ = None THEN None ELSE @ - 1], 1)

\* _write(): bus.write_byte(i2c_addr, _byte), then delay(1).  A write the bus
\* refuses is recorded as <<"x", b>>: it raises, and the pins keep their byte.
_write(io) ==
    IF io.raised THEN io
    ELSE IF io.budget = 0 THEN [io EXCEPT !.out = Append(@, <<"x", io.byte>>), !.raised = TRUE]
    ELSE delay([io EXCEPT !.out = Append(@, <<"w", io.byte>>),
                          !.budget = IF @ = None THEN None ELSE @ - 1], 1)

\* _set_bit storing the shifted value over the whole byte.
_set_bit_whole_byte(io, pos, val) ==
    IF io.raised THEN io ELSE [io EXCEPT !.byte = IF val # 0 THEN Shl(1, pos) ELSE 0]

\* _set_bit(pos, val)
_set_bit(io, pos, val) ==
    IF io.raised THEN io
    ELSE [io EXCEPT !.byte = IF val # 0 THEN BitOr(@, Shl(1, pos)) ELSE ClearBit(@, pos)]

\* @writes_byte set_rs_state(state)
set_rs_state(io, state) == _write(_set_bit(io, io.wiring.rs_bit_pos, BitAnd(state, 1)))

\* set_rw_state setting the bit to the opposite of state & 1.
set_rw_state_inverted(io, state) ==
    _write(_set_bit(io, io.wiring.rw_bit_pos, 1 - BitAnd(state, 1)))

\* @writes_byte set_rw_state(state)
set_rw_state(io, state) == _write(_set_bit(io, io.wiring.rw_bit_pos, BitAnd(state, 1)))

\* @writes_byte set_backlight_state(state)
set_backlight_state(io, state) == _write(_set_bit(io, io.wiring.a_bit_pos, BitAnd(state, 1)))

\* @writes_byte _pulse_enable_signal(): LOW, write, HIGH, write, LOW, (decorator) write
_pulse_enable_signal(io) ==
    Do(delay(_write(_set_bit(io, io.wiring.e_bit_pos, 0)), 1), LAMBDA low :
    Do(delay(_write(_set_bit(low, low.wiring.e_bit_pos, 1)), 1), LAMBDA high :
    _write(_set_bit(high, high.wiring.e_bit_pos, 0))))

\* One half of send_data: put a nibble beside the saved control bits, write, pulse.
SendNibble(io, data_bits, conf_bits) ==
    Do(io, LAMBDA s :
    _pulse_enable_signal(_write([s EXCEPT !.byte = BitOr(data_bits, conf_bits)])))

\* send_data with the two halves in the wrong order: low nibble first.
send_data_low_nibble_first(io, b, us) ==
    LET conf_bits == BitAnd(15, io.byte)
    IN  Do(SendNibble(io, Shl(BitAnd(15, b), 4), conf_bits), LAMBDA lo :
        Do(SendNibble(lo, BitAnd(240, b), conf_bits), LAMBDA hi :
        delay(hi, us)))

\* send_data writing the nibbles beside cleared control bits.
send_data_dropping_control(io, b, us) ==
    Do(SendNibble(io, BitAnd(240, b), 0), LAMBDA hi :
    Do(SendNibble(hi, Shl(BitAnd(15, b), 4), 0), LAMBDA lo :
    delay(lo, us)))

\* send_data(byte, delay): high nibble, then low nibble, then the delay
send_data(io, b, us) ==
    LET conf_bits == BitAnd(15, io.byte)
    IN  Do(SendNibble(io, BitAnd(240, b), conf_bits), LAMBDA hi :
        Do(SendNibble(hi, Shl(BitAnd(15, b), 4), conf_bits), LAMBDA lo :
        delay(lo, us)))

RECURSIVE SetDataBits(_, _, _)
\* the loop of _set_data: for i in range(4): pos = 7 - i; _set_bit(pos, (byte >> pos) & 1)
SetDataBits(io, b, i) ==
    IF i = 4 THEN io
    ELSE SetDataBits(_set_bit(io, 7 - i, BitAnd(Shr(b, 7 - i), 1)), b, i + 1)

\* @writes_byte _set_data(byte)
_set_data(io, b) == _write(SetDataBits(io, b, 0))

\* _static_initialization waiting 100 us, not 4100 us, after the first 0x3 nibble.
_static_initialization_short_wait(io) ==
    Do(delay(set_rw_state(set_rs_state(io, 0), 0), 15000), LAMBDA s0 :
    Do(delay(_pulse_enable_signal(_set_data(s0, 48)), 100), LAMBDA s1 :
    Do(delay(_pulse_enable_signal(_set_data(s1, 48)), 100), LAMBDA s2 :
    delay(_pulse_enable_signal(_set_data(s2, 48)), 100))))

\* BaseInterface._static_initialization()
_static_initialization(io) ==
    Do(delay(set_rw_state(set_rs_state(io, 0), 0), 15000), LAMBDA s0 :
    Do(delay(_pulse_enable_signal(_set_data(s0, 48)), 4100), LAMBDA s1 :
    Do(delay(_pulse_enable_signal(_set_data(s1, 48)), 100), LAMBDA s2 :
    delay(_pulse_enable_signal(_set_data(s2, 48)), 100))))

\* The Function-Set byte that initialize() computes in 4-bit operation.
FunctionSet4(lines_, matrix_size) ==
    BitOr(BitOr(32, Shl(lines_, 3)), Shl(matrix_size, 2))

\* The Function-Set byte that initialize() computes in 8-bit operation.
FunctionSet8(operational_mode, lines_, matrix_size) ==
    BitOr(BitOr(BitOr(32, Shl(operational_mode, 4)), Shl(lines_, 3)), Shl(matrix_size, 2))

\* The Entry-Mode-Set byte that initialize() computes.
EntryModeSet(increment_direction, display_shift) ==
    BitOr(BitOr(4, Shl(increment_direction, 1)), display_shift)

\* BaseInterface.initialize(operational_mode, lines, matrix_size, increment_direction, display_shift)
initialize(io, operational_mode, lines_, matrix_size, increment_direction, display_shift) ==
    Do(_static_initialization(io), LAMBDA s0 :
    Do(IF operational_mode # 0
       THEN _pulse_enable_signal(
                _set_data(s0, FunctionSet8(operational_mode, lines_, matrix_size)))
       ELSE Do(delay(_pulse_enable_signal(_set_data(s0, 32)), 1000), LAMBDA s :
            send_data(s, FunctionSet4(lines_, matrix_size), 60)), LAMBDA s1 :
    Do(send_data(s1, 8, 60), LAMBDA s2 :
    Do(send_data(s2, 1, 3000), LAMBDA s3 :
    send_data(s3, EntryModeSet(increment_direction, display_shift), 60)))))

(***************************************************************************)
(* The LCD class.  Its methods are functions of the whole object state m:  *)
(* the interface's fields (byte, out) and the LCD's own.  A character is   *)
(* its code point, which is what write_char hands to send_data (ord).      *)
(***************************************************************************)
NoneText == <<"None">>

Str(s) == <<"str", s>>

\* _build_toggle_command with the display and cursor shifts exchanged.
_build_toggle_command_swapped(m) ==
    BitOr(BitOr(BitOr(8, Shl(m.display_enabled, 1)), Shl(m.cursor_enabled, 2)),
          BitAnd(m.cursor_blinking_enabled, 1))

\* LCD._build_toggle_command()
_build_toggle_command(m) ==
    BitOr(BitOr(BitOr(8, Shl(m.display_enabled, 2)), Shl(m.cursor_enabled, 1)),
          BitAnd(m.cursor_blinking_enabled, 1))

\* LCD._build_set_ddram_command(addr)
_build_set_ddram_command(addr) == BitOr(128, addr)

\* LCD._get_max_index()
_get_max_index(m) == IF Shr(m.lines, 1) # 0 THEN 31 ELSE 15

\* LCD._get_init_text(default_text): the body is a docstring, so it returns None
_get_init_text(default_text) == NoneText

\* _convert_index_to_mem_addr without the second line's offset: the index itself.
_convert_index_to_mem_addr_linear(index) == index

\* LCD._convert_index_to_mem_addr(index)
_convert_index_to_mem_addr(index) ==
    LET offset == IF Shr(index, 4) # 0 THEN 64 ELSE 0
    IN  BitOr(BitAnd(index, 15), offset)

\* LCD.set_cursor(index)
set_cursor(m, index) ==
    Do(IF index = 0
       THEN Do(send_data(m, 2, 60), LAMBDA h : [h EXCEPT !.curr_index = 0])
       ELSE m, LAMBDA m1 :
    LET addr == _convert_index_to_mem_addr(index)
        data == _build_set_ddram_command(addr)
    IN  send_data([[m1 EXCEPT !.curr_index = index] EXCEPT !.curr_index = 0], data, 60))

\* LCD.write_char(char, index=None)
write_char(m, char, index) ==
    Do(IF index # None THEN set_cursor(m, index) ELSE m, LAMBDA m1 :
    Do(set_rs_state(send_data(set_rs_state(m1, 1), char, 60), 0), LAMBDA m2 :
    [m2 EXCEPT !.curr_index = @ + 1]))

RECURSIVE WriteCharsEachPositioned(_, _)
\* the loop of write_text placing the cursor again before every character
WriteCharsEachPositioned(m, chars) ==
    IF chars = <<>> THEN m
    ELSE Do(write_char(m, Head(chars), m.curr_index), LAMBDA m1 :
         WriteCharsEachPositioned(m1, Tail(chars)))

RECURSIVE WriteChars(_, _)
\* the loop of write_text: for char in text: write_char(char)
WriteChars(m, chars) ==
    IF chars = <<>> THEN m
    ELSE Do(write_char(m, Head(chars), None), LAMBDA m1 : WriteChars(m1, Tail(chars)))

\* LCD.write_text(text, start_index=None)
write_text(m, chars, start_index) ==
    Do(IF start_index # None THEN set_cursor(m, start_index) ELSE m, LAMBDA m1 :
    WriteChars(m1, chars))

\* LCD.clear()
clear(m) == send_data([m EXCEPT !.text = Str(<<>>), !.curr_index = 0], 1, 3000)

\* LCD.backlight_enabled = state keeping the flag and leaving the pin alone.
set_backlight_enabled_local_only(m, state) == [m EXCEPT !.backlight_enabled = state]

\* LCD.backlight_enabled = state
set_backlight_enabled(m, state) ==
    set_backlight_state([m EXCEPT !.backlight_enabled = state], state)

\* LCD.display_enabled = state
set_display_enabled(m, state) ==
    Do([m EXCEPT !.display_enabled = state], LAMBDA m1 :
    send_data(m1, _build_toggle_command(m1), 60))

\* LCD.cursor_enabled = state
set_cursor_enabled(m, state) ==
    Do([m EXCEPT !.cursor_enabled = state], LAMBDA m1 :
    send_data(m1, _build_toggle_command(m1), 60))

\* LCD.cursor_blinking_enabled = state
set_cursor_blinking_enabled(m, state) ==
    Do([m EXCEPT !.cursor_blinking_enabled = state], LAMBDA m1 :
    send_data(m1, _build_toggle_command(m1), 60))

\* LCD.text = new_text, when len(self.text) is defined
set_text(m, new_text) == Do(clear(m), LAMBDA m1 : write_text(m1, new_text, None))

\* LCD.__init__ running the handshake whatever skip_setup says.
LCD__init__always_initialize(m, lines_, matrix_size, backlight, cursor, display, blinking, skip_setup, operational_mode, increment_direction, display_shifting, default_text) ==
    Do(initialize(m, operational_mode, lines_, matrix_size,
                  increment_direction, display_shifting), LAMBDA m0 :
    Do([m0 EXCEPT !.made = TRUE, !.lines = lines_,
                  !.setup = IF skip_setup = 0 THEN <<1, operational_mode, matrix_size>>
                            ELSE <<0, 0, 0>>], LAMBDA m1 :
    Do([m1 EXCEPT !.max_index = _get_max_index(m1), !.curr_index = 0,
                  !.backlight_enabled = 0, !.display_enabled = 0,
                  !.cursor_enabled = 0, !.cursor_blinking_enabled = 0,
                  !.text = _get_init_text(<<>>)], LAMBDA m2 :
    Do(set_backlight_enabled(m2, backlight), LAMBDA m3 :
    Do(set_display_enabled(m3, display), LAMBDA m4 :
    Do(set_cursor_enabled(m4, cursor), LAMBDA m5 :
    set_cursor_blinking_enabled(m5, blinking)))))))

\* LCD.__init__(interface, lines, matrix_size, default_text, backlight_enabled,
\*              cursor_enabled, display_enabled, cursor_blinking_enabled, skip_setup,
\*              operational_mode, increment_direction, display_shifting)
\* (default_text is the last parameter here; __init__ hands "" to _get_init_text.)
LCD__init__(m, lines_, matrix_size, backlight, cursor, display, blinking, skip_setup, operational_mode, increment_direction, display_shifting, default_text) ==
    Do(IF skip_setup = 0
       THEN initialize(m, operational_mode, lines_, matrix_size,
                       increment_direction, display_shifting)
       ELSE m, LAMBDA m0 :
    Do([m0 EXCEPT !.made = TRUE, !.lines = lines_,
                  !.setup = IF skip_setup = 0 THEN <<1, operational_mode, matrix_size>>
                            ELSE <<0, 0, 0>>], LAMBDA m1 :
    Do([m1 EXCEPT !.max_index = _get_max_index(m1), !.curr_index = 0,
                  !.backlight_enabled = 0, !.display_enabled = 0,
                  !.cursor_enabled = 0, !.cursor_blinking_enabled = 0,
                  !.text = _get_init_text(<<>>)], LAMBDA m2 :
    Do(set_backlight_enabled(m2, backlight), LAMBDA m3 :
    Do(set_display_enabled(m3, display), LAMBDA m4 :
    Do(set_cursor_enabled(m4, cursor), LAMBDA m5 :
    set_cursor_blinking_enabled(m5, blinking)))))))

(***************************************************************************)
(* The state machine.  An operation runs as one action and leaves what it  *)
(* put on the bus in `trace`; Forget empties that record (and nothing      *)
(* else) before the next operation, as a test empties its bus recorder.    *)
(***************************************************************************)
\* pre_configured_byte values tried: the default, each control bit alone
\* (RS, RW, E, backlight) and the four data lines high.
PreBytes == {0, 1, 2, 4, 8, 240}

Bool == {0, 1}

\* Characters written in the full state machine ('A' and 0xFE).
Chars == {65, 254}

\* Index arguments tried in the full state machine: both ends of the first line,
\* and the first slot past a 1-line and past a 2-line display.
SomeIndexes == {0, 15, 16, 32}

\* Texts written: the first n characters of "A\xfeBZA\xfeBZ...", n up to MaxTextLen.
Texts ==
    {[i \in 1..n |-> <<65, 254, 66, 90>>[((i - 1) % 4) + 1]] : n \in 0..MaxTextLen}

\* The object state at the start of an operation: nothing on the bus yet.
Cur ==
    [byte |-> byte, wiring |-> wiring, out |-> <<>>, budget |-> None, raised |-> FALSE, made |-> made, setup |-> setup, lines |-> lines,
     max_index |-> max_index, curr_index |-> curr_index,
     backlight_enabled |-> backlight_enabled, display_enabled |-> display_enabled,
     cursor_enabled |-> cursor_enabled,
     cursor_blinking_enabled |-> cursor_blinking_enabled, text |-> text]

Idle == op[1] = "idle"

\* The attributes of the LCD object that its methods assign.
Self ==
    [curr_index |-> curr_index, text |-> text, backlight_enabled |-> backlight_enabled,
     display_enabled |-> display_enabled, cursor_enabled |-> cursor_enabled,
     cursor_blinking_enabled |-> cursor_blinking_enabled]

\* The operation returned normally, leaving the object in state m.
Commit(m, name, args) ==
    /\ byte' = m.byte
    /\ wire0' = byte
    /\ trace' = m.out
    /\ op' = <<name, args>>
    /\ err' = "none"
    /\ prev' = <<>>
    /\ self0' = Self
    /\ wiring' = m.wiring
    /\ made' = m.made
    /\ setup' = m.setup
    /\ lines' = m.lines
    /\ max_index' = m.max_index
    /\ curr_index' = m.curr_index
    /\ backlight_enabled' = m.backlight_enabled
    /\ display_enabled' = m.display_enabled
    /\ cursor_enabled' = m.cursor_enabled
    /\ cursor_blinking_enabled' = m.cursor_blinking_enabled
    /\ text' = m.text
    /\ UNCHANGED calls

\* The operation raised e before it changed anything.
Raise(e, name, args) ==
    /\ wire0' = byte
    /\ trace' = <<>>
    /\ op' = <<name, args>>
    /\ err' = e
    /\ prev' = <<>>
    /\ self0' = Self
    /\ UNCHANGED <<byte, wiring, lcdvars, calls>>

\* PCF8574I2CBackpackInterface.__init__ with the pin assignment w: the positions
\* are stored, then _byte = pre_configured_byte; _write()
InitWith(w) ==
    \E pre \in PreBytes :
        /\ byte = pre
        /\ wiring = w
        /\ wire0 = pre
        /\ trace = _write([byte |-> pre, out |-> <<>>, budget |-> None, raised |-> FALSE]).out
        /\ op = <<"PCF8574I2CBackpackInterface", <<pre>>>>
        /\ err = "none"
        /\ prev = <<>>
        /\ self0 = [curr_index |-> 0, text |-> NoneText, backlight_enabled |-> 0,
                    display_enabled |-> 0, cursor_enabled |-> 0,
                    cursor_blinking_enabled |-> 0]
        /\ made = FALSE
        /\ setup = <<0, 0, 0>>
        /\ lines = 0
        /\ max_index = 0
        /\ curr_index = 0
        /\ backlight_enabled = 0
        /\ display_enabled = 0
        /\ cursor_enabled = 0
        /\ cursor_blinking_enabled = 0
        /\ text = NoneText
        /\ calls = <<>>

\* The interface constructed with the default pin assignment.
Init == InitWith(DefaultWiring)

\* The record of the last operation is emptied; the program's state is untouched.
Forget ==
    /\ ~Idle
    /\ op' = <<"idle", <<>>>>
    /\ trace' = <<>>
    /\ wire0' = byte
    /\ err' = "none"
    /\ prev' = <<>>
    /\ self0' = Self
    /\ UNCHANGED <<byte, wiring, lcdvars, calls>>

(* Operations of the interface, called on an interface no LCD object owns. *)
LinkSendData(b, us) ==
    Idle /\ ~made /\ Commit(send_data(Cur, b, us), "send_data", <<b, us>>)

LinkSetData(b) == Idle /\ ~made /\ Commit(_set_data(Cur, b), "_set_data", <<b>>)

LinkPulse ==
    Idle /\ ~made /\ Commit(_pulse_enable_signal(Cur), "_pulse_enable_signal", <<>>)

LinkSetRs(state) ==
    Idle /\ ~made /\ Commit(set_rs_state(Cur, state), "set_rs_state", <<state>>)

LinkSetRw(state) ==
    Idle /\ ~made /\ Commit(set_rw_state(Cur, state), "set_rw_state", <<state>>)

LinkSetBacklight(state) ==
    Idle /\ ~made /\ Commit(set_backlight_state(Cur, state), "set_backlight_state", <<state>>)

LinkInitialize(mode, l, ms, inc, sh) ==
    /\ Idle
    /\ ~made
    /\ Commit(initialize(Cur, mode, l, ms, inc, sh), "initialize", <<mode, l, ms, inc, sh>>)

(* Operations of the LCD class. *)
Construct(l, ms, bl, cu, di, bk, skip, mode, inc, sh, dt) ==
    /\ Idle
    /\ ~made
    /\ Commit(LCD__init__(Cur, l, ms, bl, cu, di, bk, skip, mode, inc, sh, dt),
              "LCD", <<l, ms, bl, cu, di, bk, skip, mode, inc, sh, dt>>)

WriteChar(char, index) ==
    /\ Idle
    /\ made
    /\ (IF index = None THEN curr_index ELSE 0) < MaxCursor
    /\ Commit(write_char(Cur, char, index), "write_char", <<char, index>>)

WriteText(chars, start_index) ==
    /\ Idle
    /\ made
    /\ (IF start_index = None THEN curr_index ELSE 0) + Len(chars) <= MaxCursor
    /\ Commit(write_text(Cur, chars, start_index), "write_text", <<chars, start_index>>)

Clear == Idle /\ made /\ Commit(clear(Cur), "clear", <<>>)

SetCursor(index) ==
    Idle /\ made /\ Commit(set_cursor(Cur, index), "set_cursor", <<index>>)

SetBacklightEnabled(state) ==
    Idle /\ made /\ Commit(set_backlight_enabled(Cur, state), "backlight_enabled", <<state>>)

SetDisplayEnabled(state) ==
    Idle /\ made /\ Commit(set_display_enabled(Cur, state), "display_enabled", <<state>>)

SetCursorEnabled(state) ==
    Idle /\ made /\ Commit(set_cursor_enabled(Cur, state), "cursor_enabled", <<state>>)

SetCursorBlinkingEnabled(state) ==
    /\ Idle
    /\ made
    /\ Commit(set_cursor_blinking_enabled(Cur, state), "cursor_blinking_enabled", <<state>>)

\* LCD.text = new_text: len(self.text) raises TypeError while _text is None
SetTextNone(new_text) ==
    Idle /\ made /\ text = NoneText /\ Raise("TypeError", "text", <<new_text>>)

\* LCD.text = new_text, once clear() has made _text a string
SetText(new_text) ==
    /\ Idle
    /\ made
    /\ text # NoneText
    /\ Len(new_text) <= MaxCursor
    /\ Commit(set_text(Cur, new_text), "text", <<new_text>>)

\* The LCD class over its interface: construction, then any public operation.
Next ==
    \/ Forget
    \/ \E l \in {1, 2}, ms \in Bool, bl \in Bool, cu \in Bool, di \in Bool, bk \in Bool,
          skip \in Bool, mode \in Bool :
           Construct(l, ms, bl, cu, di, bk, skip, mode, 1, 0, <<>>)
    \/ \E l \in {1, 2}, skip \in Bool, dt \in Texts \ {<<>>} :
           Construct(l, 0, 1, 1, 1, 1, skip, 0, 1, 0, dt)
    \/ \E c \in Chars, i \in {None} \cup SomeIndexes : WriteChar(c, i)
    \/ \E t \in Texts, i \in {None, 0, 16} : WriteText(t, i)
    \/ Clear
    \/ \E i \in SomeIndexes : SetCursor(i)
    \/ \E st \in Bool : SetBacklightEnabled(st)
    \/ \E st \in Bool : SetDisplayEnabled(st)
    \/ \E st \in Bool : SetCursorEnabled(st)
    \/ \E st \in Bool : SetCursorBlinkingEnabled(st)
    \/ \E t \in Texts : SetTextNone(t)
    \/ \E t \in Texts : SetText(t)

Spec == Init /\ [][Next]_vars

\* The LCD class, every character code and every index: one character or one
\* cursor move at a time.
NextSweep ==
    \/ Forget
    \/ \E l \in {1, 2}, skip \in Bool : Construct(l, 0, 1, 1, 1, 1, skip, 0, 1, 0, <<>>)
    \/ \E c \in 0..255 : WriteChar(c, 0)
    \/ \E i \in 0..MaxIndexArg : SetCursor(i)

SpecSweep == Init /\ [][NextSweep]_vars

\* The interface alone.
NextLink ==
    \/ Forget
    \/ \E b \in 0..255 : LinkSendData(b, 60)
    \/ LinkSendData(1, 3000)
    \/ \E b \in 0..255 : LinkSetData(b)
    \/ LinkPulse
    \/ \E st \in 0..3 : LinkSetRs(st)
    \/ \E st \in 0..3 : LinkSetRw(st)
    \/ \E st \in 0..3 : LinkSetBacklight(st)
    \/ \E mode \in Bool, l \in {0, 1, 2}, ms \in Bool, inc \in Bool, sh \in Bool :
           LinkInitialize(mode, l, ms, inc, sh)

SpecLink == Init /\ [][NextLink]_vars

(***************************************************************************)
(* What the controller sees of the last operation.  It reads RS, RW and    *)
(* D4..D7 when E falls (BaseInterface docstring); the pins hold the byte   *)
(* written last, wire0 before the operation's first write.                 *)
(***************************************************************************)
E(b) == Bit(b, e_bit_pos)

Pins(b, k) == [rs |-> Bit(b, rs_bit_pos), rw |-> Bit(b, rw_bit_pos), data |-> Shr(b, 4), at |-> k]

\* The positions in trace of the bus writes, in order.
WriteAt == SelectSeq([k \in 1..Len(trace) |-> k], LAMBDA k : trace[k][1] = "w")

\* The byte on the pins before and after the j-th write, wa being WriteAt.
Before(wa, j) == IF j = 1 THEN wire0 ELSE trace[wa[j - 1]][2]
After(wa, j) == trace[wa[j]][2]

\* The writes (by their number) that change E, and those of them that lower it.
EdgesIn(wa) ==
    SelectSeq([j \in 1..Len(wa) |-> j], LAMBDA j : E(Before(wa, j)) # E(After(wa, j)))
FallsIn(wa) == SelectSeq(EdgesIn(wa), LAMBDA j : E(After(wa, j)) = 0)

\* The values read at each falling edge of E, in order.
LatchesIn(wa, falls) == [i \in 1..Len(falls) |-> Pins(Before(wa, falls[i]), wa[falls[i]])]
Latches == LatchesIn(WriteAt, FallsIn(WriteAt))

NibblesOf(latches) == [i \in 1..Len(latches) |-> latches[i].data]
LatchedData == NibblesOf(Latches)

\* The latched nibbles taken two by two as bytes, high nibble first.
BytesOf(data) == [i \in 1..(Len(data) \div 2) |-> data[2 * i - 1] * 16 + data[2 * i]]
LatchedBytes == BytesOf(LatchedData)

\* The pulses of E made by the operation: E written high (at up), then low (at
\* down).  A first edge that falls ends no pulse of the operation.
PulsesIn(wa, edges) ==
    LET off == IF edges # <<>> /\ E(After(wa, edges[1])) = 0 THEN 1 ELSE 0
    IN  [i \in 1..((Len(edges) - off) \div 2) |->
            [up |-> wa[edges[off + 2 * i - 1]],
             down |-> wa[edges[off + 2 * i]],
             data |-> Shr(Before(wa, edges[off + 2 * i]), 4)]]
Pulses == PulsesIn(WriteAt, EdgesIn(WriteAt))

\* The microseconds of delay requested strictly between events a and b.
RECURSIVE DelayBetween(_, _)
DelayBetween(a, b) ==
    IF a + 1 >= b THEN 0
    ELSE (IF trace[a + 1][1] = "d" THEN trace[a + 1][2] ELSE 0) + DelayBetween(a + 1, b)

\* The writes that change the RS pin, as <<position, new level>>.
RsChangesIn(wa) ==
    LET js == SelectSeq([j \in 1..Len(wa) |-> j],
                        LAMBDA j : Bit(Before(wa, j), rs_bit_pos) # Bit(After(wa, j), rs_bit_pos))
    IN  [i \in 1..Len(js) |-> <<wa[js[i]], Bit(After(wa, js[i]), rs_bit_pos)>>]
RsChanges == RsChangesIn(WriteAt)

HighNibble(b) == Shr(b, 4)
LowNibble(b) == b % 16

(***************************************************************************)
(* The claims.                                                             *)
(***************************************************************************)

\* C1: for every byte b in 0..255, send_data(b) makes the controller latch
\* exactly two nibbles, b >> 4 and then b & 0x0F, and only after them requests
\* the post-command delay, which is the last thing it does.
C1_SendDataLatchesHighThenLow ==
    op[1] = "send_data" =>
        LET L == Latches
        IN  /\ NibblesOf(L) = <<HighNibble(op[2][1]), LowNibble(op[2][1])>>
            /\ trace[Len(trace)] = <<"d", op[2][2]>>
            /\ L[Len(L)].at < Len(trace)

\* C2: initialize() in 4-bit mode makes the controller latch, in order and all
\* with RS and RW low, the nibbles 0x3, 0x3, 0x3, 0x2, then the two halves of a
\* Function-Set byte (001x xxxx), of 0x08, of 0x01 and of the Entry-Mode-Set byte
\* 0x04 | increment_direction << 1 | display_shift, and nothing else.
C2_InitializeLatchesTheHandshake ==
    (op[1] = "initialize" /\ op[2][1] = 0) =>
        LET L == Latches
            D == NibblesOf(L)
        IN  /\ Len(L) = 12
            /\ \A i \in 1..Len(L) : L[i].rs = 0 /\ L[i].rw = 0
            /\ SubSeq(D, 1, 4) = <<3, 3, 3, 2>>
            /\ D[5] \in {2, 3}
            /\ SubSeq(D, 7, 10) = <<0, 8, 0, 1>>
            /\ D[11] * 16 + D[12] = 4 + 2 * op[2][4] + op[2][5]

\* The byte whose halves are latched right after the first raw 0x2 nibble.
FunctionSetIn(data) ==
    LET i == CHOOSE j \in 1..Len(data) : data[j] = 2 /\ \A h \in 1..(j - 1) : data[h] # 2
    IN  data[i + 1] * 16 + data[i + 2]

\* C3: an LCD constructed with lines in {1, 2}, matrix_size in {0, 1} and 4-bit
\* mode sends, while initializing, the Function-Set byte 0x20 | 0x08 (iff lines = 2)
\* | 0x04 (iff matrix_size is 5x10), so that the number of lines programmed into
\* the controller agrees with max_index.
C3_FunctionSetMatchesLines ==
    (op[1] = "LCD" /\ op[2][7] = 0 /\ op[2][8] = 0) =>
        LET fs == FunctionSetIn(LatchedData)
        IN  /\ fs = 32 + (IF op[2][1] = 2 THEN 8 ELSE 0) + (IF op[2][2] = 1 THEN 4 ELSE 0)
            /\ (Bit(fs, 3) = 1) <=> (max_index = 31)

\* C4: on a 2-line display, for every index in 0..31, _convert_index_to_mem_addr(index)
\* is (index % 16) | (0x40 if index >= 16 else 0), and the last byte set_cursor(index)
\* has the controller latch is 0x80 | that address.
C4_SetCursorSendsDdramAddress ==
    (op[1] = "set_cursor" /\ lines = 2 /\ op[2][1] \in 0..31) =>
        LET index == op[2][1]
            addr == (index % 16) + (IF index >= 16 THEN 64 ELSE 0)
            D == LatchedData
            B == BytesOf(D)
        IN  /\ _convert_index_to_mem_addr(index) = addr
            /\ Len(B) >= 1
            /\ Len(D) = 2 * Len(B)
            /\ B[Len(B)] = 128 + addr

C4_Witness ==
    /\ op = <<"set_cursor", <<31>>>>
    /\ lines = 2
    /\ LatchedBytes = <<207>>

Setters == {"display_enabled", "cursor_enabled", "cursor_blinking_enabled"}

\* C5: when the display_enabled, cursor_enabled or cursor_blinking_enabled setter
\* returns, its own flag has the value given and the controller has latched exactly
\* one byte, 0x08 | display << 2 | cursor << 1 | blink of all three flags as they
\* now are; cursor_enabled = True with display on and blinking off sends 0x0E.
C5_SetterSendsCombinedByte ==
    op[1] \in Setters =>
        LET D == LatchedData
            own == IF op[1] = "display_enabled" THEN display_enabled
                   ELSE IF op[1] = "cursor_enabled" THEN cursor_enabled
                   ELSE cursor_blinking_enabled
        IN  /\ own = op[2][1]
            /\ Len(D) = 2
            /\ D[1] * 16 + D[2]
                   = 8 + 4 * display_enabled + 2 * cursor_enabled + cursor_blinking_enabled
            /\ (op = <<"cursor_enabled", <<1>>>> /\ display_enabled = 1
                    /\ cursor_blinking_enabled = 0) => BytesOf(D) = <<14>>

C5_Witness ==
    /\ op = <<"cursor_enabled", <<1>>>>
    /\ made
    /\ display_enabled = 1
    /\ cursor_blinking_enabled = 0
    /\ LatchedBytes = <<14>>

\* The nibbles latched while RS is high.
DataNibbles(latches) == NibblesOf(SelectSeq(latches, LAMBDA l : l.rs = 1))

\* C6: on a 1-line, 5x7, 4-bit display that was initialized, write_char(c, 0), for
\* every c in 0..255, raises RS once, then has the controller latch with RS high
\* exactly c's high nibble and then c's low nibble, one pulse each, then lowers RS
\* once; every other nibble is latched before with RS low, and RS is low at return.
C6_WriteCharFramesTheByte ==
    (op[1] = "write_char" /\ op[2][2] = 0 /\ setup = <<1, 0, 0>> /\ lines = 1) =>
        LET c == op[2][1]
            L == Latches
            n == Len(L)
            R == RsChanges
        IN  /\ Len(R) = 2
            /\ R[1][2] = 1
            /\ R[2][2] = 0
            /\ DataNibbles(L) = <<HighNibble(c), LowNibble(c)>>
            /\ n >= 2
            /\ L[n - 1].rs = 1
            /\ L[n].rs = 1
            /\ R[1][1] < L[n - 1].at
            /\ L[n].at < R[2][1]
            /\ Len(Pulses) = n
            /\ Bit(byte, rs_bit_pos) = 0

C6_Witness ==
    /\ op = <<"write_char", <<65, 0>>>>
    /\ setup = <<1, 0, 0>>
    /\ lines = 1
    /\ DataNibbles(Latches) = <<4, 1>>
    /\ Bit(byte, rs_bit_pos) = 0

\* C7: constructing an LCD with lines = 2 and matrix_size = 5x10 fails with
\* InvalidDisplayConfError, before any byte is written and any step of the
\* initialization is run.
C7_TwoLines5x10Rejected ==
    (op[1] = "LCD" /\ op[2][1] = 2 /\ op[2][2] = 1) =>
        /\ err = "InvalidDisplayConfError"
        /\ trace = <<>>
        /\ ~made

\* The last index the operation was asked to reach, None when it names none.
IndexAsked ==
    IF op[1] = "set_cursor" THEN op[2][1]
    ELSE IF op[1] = "write_char" THEN op[2][2]
    ELSE IF op[1] = "write_text" /\ op[2][2] # None /\ op[2][1] # <<>>
         THEN op[2][2] + Len(op[2][1]) - 1
    ELSE None

\* C8: write_char, set_cursor and write_text asked for an index beyond max_index
\* fail with OutOfRange before any command is issued: no byte is written.
C8_IndexBeyondCapacityRejected ==
    (made /\ IndexAsked # None /\ IndexAsked > max_index) =>
        /\ err = "OutOfRange"
        /\ trace = <<>>

\* C9: clear(), from any state, leaves the cursor index at 0 and the text empty,
\* has the controller latch the byte 0x01 and nothing else, with RS low (as a
\* command), and ends by requesting a delay of at least 3000 microseconds.
C9_ClearResetsAndSendsClear ==
    op[1] = "clear" =>
        LET L == Latches
        IN  /\ curr_index = 0
            /\ text = Str(<<>>)
            /\ NibblesOf(L) = <<0, 1>>
            /\ \A i \in 1..Len(L) : L[i].rs = 0
            /\ trace[Len(trace)][1] = "d"
            /\ trace[Len(trace)][2] >= 3000

\* C10: initialize() requests at least 15000 us before its first pulse, at least
\* 4100 us between the first and the second 0x3 pulse, at least 100 us between the
\* second and the third and after the third, in 4-bit mode at least 1000 us after
\* the raw 0x2 pulse, and at least 3000 us between the second pulse of the Clear
\* byte and the first pulse of the Entry-Mode-Set byte.
C10_InitializeDelays ==
    op[1] = "initialize" =>
        LET P == Pulses
            n == Len(P)
        IN  /\ n = IF op[2][1] = 0 THEN 12 ELSE 10
            /\ P[1].data = 3 /\ P[2].data = 3 /\ P[3].data = 3
            /\ DelayBetween(0, P[1].up) >= 15000
            /\ DelayBetween(P[1].down, P[2].up) >= 4100
            /\ DelayBetween(P[2].down, P[3].up) >= 100
            /\ DelayBetween(P[3].down, P[4].up) >= 100
            /\ op[2][1] = 0 => (P[4].data = 2 /\ DelayBetween(P[4].down, P[5].up) >= 1000)
            /\ P[n - 3].data = 0 /\ P[n - 2].data = 1
            /\ DelayBetween(P[n - 2].down, P[n - 1].up) >= 3000

C10_Witness ==
    LET P == Pulses
    IN  /\ op[1] = "initialize"
        /\ op[2][1] = 0
        /\ Len(P) = 12
        /\ P[4].data = 2
        /\ DelayBetween(P[1].down, P[2].up) \in 4100..4110
        /\ DelayBetween(P[4].down, P[5].up) \in 1000..1010
        /\ DelayBetween(P[10].down, P[11].up) \in 3000..3010

(***************************************************************************)
(* initialize() called again, with the same arguments, right after it      *)
(* returned.                                                               *)
(***************************************************************************)
\* What the controller is shown by the last operation, in order: each nibble it
\* latches, with RS and RW, and each delay requested.
SeenIn(latches) ==
    LET ev(k) ==
            IF trace[k][1] = "d" THEN trace[k]
            ELSE IF \E i \in 1..Len(latches) : latches[i].at = k
                 THEN LET l == latches[CHOOSE i \in 1..Len(latches) : latches[i].at = k]
                      IN  <<"l", l.rs, l.rw, l.data>>
            ELSE <<"-">>
    IN  SelectSeq([k \in 1..Len(trace) |-> ev(k)], LAMBDA e : e[1] # "-")
Seen == SeenIn(Latches)

\* The second of two calls in a row: m is the state it leaves, seen what the
\* controller was shown by the first.
Again(m, seen) ==
    /\ byte' = m.byte
    /\ wire0' = byte
    /\ trace' = m.out
    /\ err' = "none"
    /\ prev' = seen
    /\ UNCHANGED <<op, self0, wiring, lcdvars, calls>>

LinkInitializeAgain ==
    /\ op[1] = "initialize"
    /\ prev = <<>>
    /\ ~made
    /\ Again(initialize(Cur, op[2][1], op[2][2], op[2][3], op[2][4], op[2][5]), Seen)

\* The interface alone: initialize(), called once or twice in a row.
NextAgain ==
    \/ Forget
    \/ \E mode \in Bool, l \in {0, 1, 2}, ms \in Bool, inc \in Bool, sh \in Bool :
           LinkInitialize(mode, l, ms, inc, sh)
    \/ LinkInitializeAgain

SpecAgain == Init /\ [][NextAgain]_vars

\* C11: when initialize() has been run twice in a row with the same arguments,
\* the second run succeeded and showed the controller the same sequence of
\* latched (RS, RW, nibble) values and requested delays as the first.
C11_ReinitializeRepeatsTheHandshake ==
    (op[1] = "initialize" /\ prev # <<>>) =>
        /\ err = "none"
        /\ Seen = prev

\* The byte b with the bit at pos made v.
WithBit(b, pos, v) == b - Bit(b, pos) * 2^pos + v * 2^pos

\* The number of the first bus write after position p of trace (wa is WriteAt).
FirstWriteAfter(wa, p) == CHOOSE j \in 1..Len(wa) : wa[j] > p /\ (j = 1 \/ wa[j - 1] <= p)

\* What the driver strobes: the pins at each write that raises E alone and is
\* followed by the write that lowers it again, as _pulse_enable_signal does
\* (at is the position of the lowering write).
StrobesIn(wa) ==
    LET js == SelectSeq([j \in 1..Len(wa) |-> j],
                        LAMBDA j : /\ j < Len(wa)
                                   /\ E(Before(wa, j)) = 0
                                   /\ After(wa, j) = WithBit(Before(wa, j), e_bit_pos, 1)
                                   /\ After(wa, j + 1) = Before(wa, j))
    IN  [i \in 1..Len(js) |-> Pins(After(wa, js[i]), wa[js[i] + 1])]
Strobes == StrobesIn(WriteAt)

\* The nibbles of the three display-control bytes the constructor sends: the
\* flags start at 0 and are set in the order display, cursor, blinking.
ConstructorToggles(di, cu, bk) ==
    <<0, 8 + 4 * di, 0, 8 + 4 * di + 2 * cu, 0, 8 + 4 * di + 2 * cu + bk>>

\* C12: LCD(skip_setup=True) emits nothing of the handshake: its bus activity is
\* the backlight write (the pins as they were, with the backlight bit as asked)
\* and then the three display-control bytes, each nibble strobed once.  With
\* skip_setup=False the handshake (0x3 three times, in 4-bit mode 0x2 and the
\* two halves of Function-Set, then 0x08, 0x01, Entry-Mode-Set) is strobed in
\* full before the backlight write and the three display-control bytes.
C12_SkipSetupBypassesHandshake ==
    op[1] = "LCD" =>
        LET skip == op[2][7]
            mode == op[2][8]
            h == IF skip = 1 THEN 0 ELSE IF mode = 0 THEN 12 ELSE 10
            wa == WriteAt
            S == StrobesIn(wa)
            D == NibblesOf(S)
            j == FirstWriteAfter(wa, IF h = 0 THEN 0 ELSE S[h].at)
        IN  /\ Len(D) = h + 6
            /\ Len(wa) = 1 + 4 * Len(D) + (IF skip = 1 THEN 0 ELSE 2)
            /\ SubSeq(D, h + 1, h + 6) = ConstructorToggles(op[2][5], op[2][4], op[2][6])
            /\ After(wa, j) = WithBit(Before(wa, j), a_bit_pos, op[2][3])
            /\ wa[j] < S[h + 1].at
            /\ skip = 1 => wa[j] = 1
            /\ skip = 0 =>
                   /\ SubSeq(D, 1, 3) = <<3, 3, 3>>
                   /\ mode = 0 => (D[4] = 2 /\ D[5] \in {2, 3})
                   /\ mode = 1 => D[4] = 3
                   /\ SubSeq(D, h - 5, h) = <<0, 8, 0, 1, 0, 4 + 2 * op[2][9] + op[2][10]>>

C12_Witness ==
    /\ op[1] = "LCD"
    /\ op[2][7] = 1
    /\ E(wire0) = 1
    /\ Len(WriteAt) = 25
    /\ NibblesOf(Strobes)
           = ConstructorToggles(op[2][5], op[2][4], op[2][6])

\* How many command or data bytes the last operation hands to the controller
\* after the handshake, for the operations that send a fixed number of them.
BytesSent ==
    IF op[1] = "LCD" THEN 3
    ELSE IF op[1] \in {"clear"} \cup Setters THEN 1
    ELSE IF op[1] = "write_char" /\ op[2][2] = None THEN 1
    ELSE 0

\* C13: on a display set up in 8-bit mode the handshake strobes E once for the
\* Function Set (after the three static strobes), and every later command or
\* data byte is strobed exactly once: no byte is split into two nibbles.
C13_EightBitModeStrobesOncePerByte ==
    (made /\ setup[1] = 1 /\ setup[2] = 1 /\ err = "none" /\ BytesSent > 0) =>
        Len(Strobes) = BytesSent + (IF op[1] = "LCD" THEN 3 + 1 + 3 ELSE 0)

(***************************************************************************)
(* The driver on a bus that fails: each operation is run on a bus that     *)
(* lets n writes through and refuses the next one.                         *)
(***************************************************************************)
\* The object state at the start of an operation on such a bus.
CurOnBus(n) == [Cur EXCEPT !.budget = n]

\* The LCD's fields as the operation left them.
Left(m) ==
    /\ made' = m.made
    /\ setup' = m.setup
    /\ lines' = m.lines
    /\ max_index' = m.max_index
    /\ curr_index' = m.curr_index
    /\ backlight_enabled' = m.backlight_enabled
    /\ display_enabled' = m.display_enabled
    /\ cursor_enabled' = m.cursor_enabled
    /\ cursor_blinking_enabled' = m.cursor_blinking_enabled
    /\ text' = m.text

\* The operation ended in state m: it returned, or bus.write_byte's OSError came
\* out of it.  An LCD whose __init__ raised is never bound to a name.
Finish(m, name, args, n) ==
    /\ byte' = m.byte
    /\ wire0' = byte
    /\ trace' = m.out
    /\ op' = <<name, args, n>>
    /\ err' = IF m.raised THEN "OSError" ELSE "none"
    /\ prev' = <<>>
    /\ self0' = Self
    /\ wiring' = m.wiring
    /\ UNCHANGED calls
    /\ IF m.raised /\ name = "LCD" THEN UNCHANGED lcdvars ELSE Left(m)

LinkSendDataOnBus(n, b, us) ==
    Idle /\ ~made /\ Finish(send_data(CurOnBus(n), b, us), "send_data", <<b, us>>, n)

LinkSetDataOnBus(n, b) ==
    Idle /\ ~made /\ Finish(_set_data(CurOnBus(n), b), "_set_data", <<b>>, n)

LinkPulseOnBus(n) ==
    Idle /\ ~made /\ Finish(_pulse_enable_signal(CurOnBus(n)), "_pulse_enable_signal", <<>>, n)

LinkSetRsOnBus(n, state) ==
    Idle /\ ~made /\ Finish(set_rs_state(CurOnBus(n), state), "set_rs_state", <<state>>, n)

LinkSetRwOnBus(n, state) ==
    Idle /\ ~made /\ Finish(set_rw_state(CurOnBus(n), state), "set_rw_state", <<state>>, n)

LinkSetBacklightOnBus(n, state) ==
    Idle /\ ~made /\ Finish(set_backlight_state(CurOnBus(n), state), "set_backlight_state", <<state>>, n)

LinkInitializeOnBus(n, mode, l, ms, inc, sh) ==
    /\ Idle
    /\ ~made
    /\ Finish(initialize(CurOnBus(n), mode, l, ms, inc, sh), "initialize", <<mode, l, ms, inc, sh>>, n)

ConstructOnBus(n, l, ms, bl, cu, di, bk, skip, mode, inc, sh, dt) ==
    /\ Idle
    /\ ~made
    /\ Finish(LCD__init__(CurOnBus(n), l, ms, bl, cu, di, bk, skip, mode, inc, sh, dt),
              "LCD", <<l, ms, bl, cu, di, bk, skip, mode, inc, sh, dt>>, n)

WriteCharOnBus(n, char, index) ==
    /\ Idle
    /\ made
    /\ (IF index = None THEN curr_index ELSE 0) < MaxCursor
    /\ Finish(write_char(CurOnBus(n), char, index), "write_char", <<char, index>>, n)

WriteTextOnBus(n, chars, start_index) ==
    /\ Idle
    /\ made
    /\ (IF start_index = None THEN curr_index ELSE 0) + Len(chars) <= MaxCursor
    /\ Finish(write_text(CurOnBus(n), chars, start_index), "write_text", <<chars, start_index>>, n)

ClearOnBus(n) == Idle /\ made /\ Finish(clear(CurOnBus(n)), "clear", <<>>, n)

SetCursorOnBus(n, index) ==
    Idle /\ made /\ Finish(set_cursor(CurOnBus(n), index), "set_cursor", <<index>>, n)

SetBacklightEnabledOnBus(n, state) ==
    /\ Idle
    /\ made
    /\ Finish(set_backlight_enabled(CurOnBus(n), state), "backlight_enabled", <<state>>, n)

SetDisplayEnabledOnBus(n, state) ==
    /\ Idle
    /\ made
    /\ Finish(set_display_enabled(CurOnBus(n), state), "display_enabled", <<state>>, n)

SetCursorEnabledOnBus(n, state) ==
    /\ Idle
    /\ made
    /\ Finish(set_cursor_enabled(CurOnBus(n), state), "cursor_enabled", <<state>>, n)

SetCursorBlinkingEnabledOnBus(n, state) ==
    /\ Idle
    /\ made
    /\ Finish(set_cursor_blinking_enabled(CurOnBus(n), state), "cursor_blinking_enabled", <<state>>, n)

SetTextOnBus(n, new_text) ==
    /\ Idle
    /\ made
    /\ text # NoneText
    /\ Len(new_text) <= MaxCursor
    /\ Finish(set_text(CurOnBus(n), new_text), "text", <<new_text>>, n)

\* Every operation, on a bus that fails at any of its writes or at none.  (The
\* setters but display_enabled are given the values of the construction.)
NextFail ==
    \/ Forget
    \/ \E n \in 0..9 : LinkSendDataOnBus(n, 65, 60)
    \/ \E n \in 0..2 : LinkSetDataOnBus(n, 48)
    \/ \E n \in 0..4 : LinkPulseOnBus(n)
    \/ \E n \in 0..2 : LinkSetRsOnBus(n, 0)
    \/ \E n \in 0..2 : LinkSetRwOnBus(n, 0)
    \/ \E n \in 0..2 : LinkSetBacklightOnBus(n, 1)
    \/ \E n \in 0..MaxBudget : LinkInitializeOnBus(n, 0, 1, 0, 1, 0)
    \/ \E n \in 0..MaxBudget, skip \in Bool :
           ConstructOnBus(n, 2, 0, 1, 1, 1, 1, skip, 0, 1, 0, <<>>)
    \/ \E n \in 0..27, i \in {None, 0} : WriteCharOnBus(n, 65, i)
    \/ \E n \in 0..21 : WriteTextOnBus(n, <<65, 254>>, None)
    \/ \E n \in 0..9 : ClearOnBus(n)
    \/ \E n \in 0..17, i \in {0, 16} : SetCursorOnBus(n, i)
    \/ \E n \in 0..2 : SetBacklightEnabledOnBus(n, 1)
    \/ \E n \in 0..9, st \in Bool : SetDisplayEnabledOnBus(n, st)
    \/ \E n \in 0..9 : SetCursorEnabledOnBus(n, 1)
    \/ \E n \in 0..9 : SetCursorBlinkingEnabledOnBus(n, 1)
    \/ \E n \in 0..19 : SetTextOnBus(n, <<65>>)

SpecFail == Init /\ [][NextFail]_vars

\* The positions of the refused writes in the last operation's trace.
Refused == {k \in 1..Len(trace) : trace[k][1] = "x"}

\* C14: when the bus refuses a write, the operation raises the bus's OSError;
\* the refused write is the last thing the operation did on the bus (it is not
\* tried again and no other write follows), exactly the writes before it having
\* gone through; and when the operation is the construction of an LCD, no LCD
\* object comes to exist.  An operation that met no refusal returns normally.
C14_BusFailurePropagates ==
    Len(op) = 3 =>
        /\ (err = "OSError") <=> (Refused # {})
        /\ err \in {"OSError", "none"}
        /\ Refused # {} =>
              /\ Refused = {Len(trace)}
              /\ Len(WriteAt) = op[3]
              /\ (op[1] = "LCD" => ~made)
        /\ Refused = {} => Len(WriteAt) <= op[3]

\* A construction whose handshake was cut short by the bus, in the middle of a pulse.
C14_Witness ==
    /\ op[1] = "LCD"
    /\ op[2][7] = 0
    /\ err = "OSError"
    /\ ~made
    /\ Len(WriteAt) = 40
    /\ trace[Len(trace)][1] = "x"
    /\ E(trace[Len(trace)][2]) = 1

\* The LCD class writing texts: from every start index, across the end of line 1.
NextText ==
    \/ Forget
    \/ \E l \in {1, 2}, skip \in Bool : Construct(l, 0, 1, 1, 1, 1, skip, 0, 1, 0, <<>>)
    \/ \E t \in Texts, i \in {None} \cup SomeIndexes : WriteText(t, i)
    \/ Clear

SpecText == Init /\ [][NextText]_vars

\* The command bytes of write_text's cursor-positioning step (set_cursor).
PositioningBytes(start_index) ==
    IF start_index = None THEN <<>>
    ELSE IF start_index = 0 THEN <<2, 128>>
    ELSE <<_build_set_ddram_command(_convert_index_to_mem_addr(start_index))>>

\* What write_text(text, start_index) put on the bus: the bytes of one positioning
\* step if start_index was given, then the characters of text in order and nothing
\* between them; every character strobed with RS high, RS written low after each
\* character and high again before the next.
WriteTextIssued ==
    LET chars == op[2][1]
        P == PositioningBytes(op[2][2])
        wa == WriteAt
        S == StrobesIn(wa)
        c(k) == 2 * Len(P) + 2 * k
    IN  /\ BytesOf(NibblesOf(S)) = P \o chars
        /\ Len(S) = 2 * (Len(P) + Len(chars))
        /\ \A k \in 1..Len(chars) :
              /\ S[c(k) - 1].rs = 1
              /\ S[c(k)].rs = 1
              /\ \E j \in 1..Len(wa) :
                    /\ wa[j] > S[c(k)].at
                    /\ k < Len(chars) => wa[j] < S[c(k) + 1].at
                    /\ Bit(After(wa, j), rs_bit_pos) = 0
        /\ \A i \in 1..(2 * Len(P)) : chars # <<>> => S[i].at < S[2 * Len(P) + 1].at
        /\ Bit(byte, rs_bit_pos) = 0 \/ chars = <<>>

\* C15: write_text(text, start_index) runs one cursor-positioning step if
\* start_index is given and none otherwise, then sends exactly the characters of
\* text as data, in order, each between RS high and RS low, with no Set-DDRAM or
\* Home command between two characters (none at index 16 either); and it leaves
\* the logical cursor len(text) past where it was (past where the positioning
\* step left it, when there was one).
C15_WriteTextWritesSequentially ==
    op[1] = "write_text" =>
        /\ err = "none"
        /\ WriteTextIssued
        /\ curr_index = Len(op[2][1]) +
              (IF op[2][2] = None THEN self0.curr_index
               ELSE set_cursor(Cur, op[2][2]).curr_index)

\* Two characters written from index 15: the second goes out right after the
\* first, although it belongs at index 16, the start of line 2.
C15_Witness ==
    /\ op = <<"write_text", <<<<65, 254>>, 15>>>>
    /\ lines = 2
    /\ BytesOf(NibblesOf(Strobes)) = <<143, 65, 254>>
    /\ curr_index = 2

\* C16: set_cursor(index) sends exactly one command byte: Home (0x02) and nothing
\* else for index 0, one Set-DDRAM-address command (0x80 | address) and no Home
\* for any other index.
C16_SetCursorSendsOneCommand ==
    op[1] = "set_cursor" =>
        LET B == BytesOf(NibblesOf(Strobes))
        IN  /\ err = "none"
            /\ Len(Strobes) = 2
            /\ IF op[2][1] = 0 THEN B = <<2>> ELSE B[1] >= 128

\* The command bytes (RS low) the driver strobed in the last operation, in order.
CommandsStrobed ==
    LET S == Strobes
    IN  SelectSeq([i \in 1..(Len(S) \div 2) |->
                      IF S[2 * i].rs = 0 THEN S[2 * i - 1].data * 16 + S[2 * i].data ELSE None],
                  LAMBDA b : b # None)

\* C17: the construction leaves the four flags equal to its arguments; the
\* construction and each of the display_enabled, cursor_enabled and
\* cursor_blinking_enabled setters end by sending the Display-Control byte
\* 0x08 | display << 2 | cursor << 1 | blink of the flags as they now are, and no
\* other operation sends a Display-Control byte (0x08..0x0F) or changes a flag, so
\* the last one sent always renders the flags; the backlight pin always carries
\* backlight_enabled; and a flag differs from its value before the operation only
\* after its own setter or the construction.
C17_FlagsAreRendered ==
    (made /\ err = "none") =>
        LET C == CommandsStrobed
            B == BytesOf(NibblesOf(Strobes))
            now == 8 + 4 * display_enabled + 2 * cursor_enabled + cursor_blinking_enabled
        IN  /\ op[1] = "LCD" =>
                  /\ backlight_enabled = op[2][3]
                  /\ cursor_enabled = op[2][4]
                  /\ display_enabled = op[2][5]
                  /\ cursor_blinking_enabled = op[2][6]
            /\ op[1] \in {"LCD"} \cup Setters => (B # <<>> /\ B[Len(B)] = now)
            /\ op[1] \notin {"LCD"} \cup Setters => \A i \in 1..Len(C) : C[i] \notin 8..15
            /\ Bit(byte, a_bit_pos) = backlight_enabled
            /\ WriteAt # <<>> => Bit(trace[WriteAt[Len(WriteAt)]][2], a_bit_pos) = backlight_enabled
            /\ op[1] \notin {"LCD", "backlight_enabled"} =>
                  backlight_enabled = self0.backlight_enabled
            /\ op[1] \notin {"LCD", "display_enabled"} => display_enabled = self0.display_enabled
            /\ op[1] \notin {"LCD", "cursor_enabled"} => cursor_enabled = self0.cursor_enabled
            /\ op[1] \notin {"LCD", "cursor_blinking_enabled"} =>
                  cursor_blinking_enabled = self0.cursor_blinking_enabled

\* The backlight switched off on a display whose cursor was hidden before.
C17_Witness ==
    /\ op = <<"backlight_enabled", <<0>>>>
    /\ self0.backlight_enabled = 1
    /\ backlight_enabled = 0
    /\ Bit(byte, a_bit_pos) = 0
    /\ cursor_enabled = 0
    /\ display_enabled = 1

\* C18: lcd.text = s succeeds (on a fresh LCD too), sends Clear and then the
\* characters of s as data, and leaves lcd.text equal to s; and after write_char or
\* write_text, lcd.text is a string that holds what was written.
C18_TextPropertyTracksTheDisplay ==
    made =>
        /\ op[1] = "text" =>
              /\ err = "none"
              /\ BytesOf(NibblesOf(Strobes)) = <<1>> \o op[2][1]
              /\ text = Str(op[2][1])
        /\ (op[1] = "write_text" /\ op[2][2] = 0 /\ self0.text \in {NoneText, Str(<<>>)}) =>
              text = Str(op[2][1])
        /\ (op[1] = "write_char" /\ op[2][2] = 0 /\ self0.text \in {NoneText, Str(<<>>)}) =>
              text = Str(<<op[2][1]>>)

\* C19: LCD(..., default_text = t) ends by sending the characters of t as data
\* (RS high), one byte each, and leaves lcd.text equal to t.
C19_DefaultTextIsWritten ==
    (op[1] = "LCD" /\ op[2][11] # <<>>) =>
        LET t == op[2][11]
            D == BytesOf(DataNibbles(Strobes))
        IN  /\ err = "none"
            /\ made
            /\ Len(D) >= Len(t)
            /\ SubSeq(D, Len(D) - Len(t) + 1, Len(D)) = t
            /\ text = Str(t)

\* The bit of the control byte that a pin setter owns.
OwnBit ==
    IF op[1] = "set_rs_state" THEN rs_bit_pos
    ELSE IF op[1] = "set_rw_state" THEN rw_bit_pos
    ELSE a_bit_pos

\* C20: set_rs_state(state), set_rw_state(state) and set_backlight_state(state)
\* set their own bit of the control byte to state & 1 and leave every other bit,
\* Enable and the four data bits included, as it was; they write the whole byte
\* to the bus exactly once; and the Enable line does not move.
C20_PinSettersChangeOneBit ==
    op[1] \in {"set_rs_state", "set_rw_state", "set_backlight_state"} =>
        /\ err = "none"
        /\ byte = WithBit(wire0, OwnBit, op[2][1] % 2)
        /\ trace = <<<<"w", byte>>, <<"d", 1>>>>
        /\ EdgesIn(WriteAt) = <<>>
        /\ Pulses = <<>>

\* RS raised with state = 3 while the data lines hold a nibble and E is high.
C20_Witness ==
    /\ op = <<"set_rs_state", <<3>>>>
    /\ wire0 >= 16
    /\ E(wire0) = 1
    /\ Bit(wire0, rs_bit_pos) = 0
    /\ byte = wire0 + 1

\* The byte b with its Enable bit cleared.
SansE(b) == WithBit(b, e_bit_pos, 0)

\* C21: _pulse_enable_signal writes exactly three bytes, with Enable 0, then 1,
\* then 0 and the seven other bits as they were in all three; it requests at least
\* 1 us after the first and after the second; it leaves Enable low; and the
\* controller reads the data lines once, at the fall from the second byte to the
\* third, and at no other moment of the operation.
C21_PulseIsLowHighLow ==
    op[1] = "_pulse_enable_signal" =>
        LET wa == WriteAt
            L == Latches
        IN  /\ err = "none"
            /\ Len(wa) = 3
            /\ trace[wa[1]][2] = SansE(wire0)
            /\ trace[wa[2]][2] = SansE(wire0) + 2^e_bit_pos
            /\ trace[wa[3]][2] = SansE(wire0)
            /\ DelayBetween(wa[1], wa[2]) >= 1
            /\ DelayBetween(wa[2], wa[3]) >= 1
            /\ byte = SansE(wire0)
            /\ Len(L) = 1
            /\ L[1].at = wa[3]
            /\ L[1].data = Shr(wire0, 4)

\* C22: whatever an operation of the interface changed in the control byte is on
\* the expander's pins before Enable next rises (a write that raises Enable
\* changes no other pin), and when the operation returns the pins hold the control
\* byte: the byte written last is _byte.
C22_PinsFollowTheControlByte ==
    LET wa == WriteAt
    IN  /\ \A j \in 1..Len(wa) :
              (E(Before(wa, j)) = 0 /\ E(After(wa, j)) = 1) =>
                  After(wa, j) = WithBit(Before(wa, j), e_bit_pos, 1)
        /\ byte = IF wa = <<>> THEN wire0 ELSE trace[wa[Len(wa)]][2]

(***************************************************************************)
(* The interface constructed for another backpack wiring.                  *)
(***************************************************************************)
\* Pin assignments tried: the default; the control pins in another order; the
\* data lines on bits 0..3 and the control pins on bits 4..7; everything reversed.
Wirings ==
    {DefaultWiring,
     [rs_bit_pos |-> 1, rw_bit_pos |-> 0, e_bit_pos |-> 3, a_bit_pos |-> 2,
      data_bit_pos |-> <<4, 5, 6, 7>>],
     [rs_bit_pos |-> 4, rw_bit_pos |-> 5, e_bit_pos |-> 6, a_bit_pos |-> 7,
      data_bit_pos |-> <<0, 1, 2, 3>>],
     [rs_bit_pos |-> 7, rw_bit_pos |-> 6, e_bit_pos |-> 5, a_bit_pos |-> 4,
      data_bit_pos |-> <<3, 2, 1, 0>>]}

InitWired == \E w \in Wirings : InitWith(w)

NextWired ==
    \/ Forget
    \/ \E b \in 0..255 : LinkSendData(b, 60)
    \/ \E b \in 0..255 : LinkSetData(b)

SpecWired == InitWired /\ [][NextWired]_vars

\* The nibble that the byte b puts on D4..D7 under the pin assignment.
DataOn(b) ==
    Bit(b, wiring.data_bit_pos[1]) + 2 * Bit(b, wiring.data_bit_pos[2])
        + 4 * Bit(b, wiring.data_bit_pos[3]) + 8 * Bit(b, wiring.data_bit_pos[4])

\* The RS, RW and backlight pins under the pin assignment.
ControlOn(b) ==
    <<Bit(b, wiring.rs_bit_pos), Bit(b, wiring.rw_bit_pos), Bit(b, wiring.a_bit_pos)>>

\* C23: under every pin assignment, each byte that send_data(b) and _set_data(b)
\* write carries the nibble being sent on the positions data_bits[0..3] (the high
\* nibble of b, then for send_data's second half the low nibble) and has the bits
\* at rs_bit, rw_bit and a_bit as they were before the call.
C23_PinAssignmentHonoured ==
    (op[1] \in {"send_data", "_set_data"} /\ wiring \in Wirings) =>
        LET b == op[2][1]
            wa == WriteAt
        IN  /\ err = "none"
            /\ Len(wa) = IF op[1] = "send_data" THEN 8 ELSE 1
            /\ \A j \in 1..Len(wa) :
                  /\ DataOn(After(wa, j)) = IF j <= 4 THEN HighNibble(b) ELSE LowNibble(b)
                  /\ ControlOn(After(wa, j)) = ControlOn(wire0)

(***************************************************************************)
(* The controller's DDRAM address counter: Clear (0x01) and Home (0x02,    *)
(* 0x03) set it to 0, Set-DDRAM-address (0x80 | a) sets it to a, a data    *)
(* byte (RS high) advances it by one; no other command moves it.           *)
(***************************************************************************)
RECURSIVE AddressAfter(_, _, _)
\* The counter after the latches L[i..], taken two by two as bytes, from ac.
AddressAfter(ac, L, i) ==
    IF i + 1 > Len(L) THEN ac
    ELSE LET b == L[i].data * 16 + L[i + 1].data
         IN  AddressAfter(IF L[i + 1].rs = 1 THEN ac + 1
                          ELSE IF b \in {1, 2, 3} THEN 0
                          ELSE IF b >= 128 THEN b - 128
                          ELSE ac, L, i + 2)

\* C24: on an initialized 4-bit display, an operation among set_cursor,
\* write_char, write_text and clear that begins with the logical cursor on the
\* controller's address counter and keeps the counter on the first line ends with
\* _convert_index_to_mem_addr(_curr_index) equal to the counter; after
\* set_cursor(i) the logical cursor is i, and after write_char(c, i) it is i + 1.
C24_CursorTracksAddressCounter ==
    (made /\ setup[1] = 1 /\ setup[2] = 0 /\ err = "none"
          /\ op[1] \in {"set_cursor", "write_char", "write_text", "clear"}) =>
        LET ac == AddressAfter(_convert_index_to_mem_addr(self0.curr_index), Latches, 1)
        IN  ac <= 15 =>
                /\ _convert_index_to_mem_addr(curr_index) = ac
                /\ op[1] = "set_cursor" => curr_index = op[2][1]
                /\ (op[1] = "write_char" /\ op[2][2] # None) => curr_index = op[2][2] + 1

\* How many characters the last operation writes as data.
CharsWritten ==
    IF op[1] = "write_char" THEN 1
    ELSE IF op[1] \in {"write_text", "text"} THEN Len(op[2][1])
    ELSE 0

\* C25: in every operation of the LCD, the construction with any option and any
\* pre_configured_byte included, RS is high at the two falling edges of Enable
\* that latch each character written and low at every other falling edge, those
\* of the handshake, Clear, Home, Set-DDRAM-address and Display-Control bytes.
C25_RegisterSelectDiscipline ==
    (made /\ err = "none") =>
        LET L == Latches
            n == 2 * CharsWritten
        IN  /\ Len(L) >= n
            /\ \A i \in 1..Len(L) :
                  L[i].rs = IF i > Len(L) - n THEN 1 ELSE 0

\* C26: no operation of the LCD raises RW: no byte it writes has the RW bit set
\* when the pins had it clear.  On a display whose handshake was run, RW is low
\* in every byte written once set_rw_state(0) of the handshake has been written,
\* low at every falling edge of Enable, and low when each operation returns.
C26_ReadWriteStaysLow ==
    made =>
        LET wa == WriteAt
            L == Latches
        IN  /\ \A j \in 1..Len(wa) :
                  Bit(Before(wa, j), rw_bit_pos) = 0 => Bit(After(wa, j), rw_bit_pos) = 0
            /\ setup[1] = 1 =>
                  /\ Bit(byte, rw_bit_pos) = 0
                  /\ \A j \in 1..Len(wa) :
                        (op[1] # "LCD" \/ j >= 2) => Bit(After(wa, j), rw_bit_pos) = 0
                  /\ \A i \in 1..Len(L) : L[i].rw = 0

\* A display constructed, with its handshake, on an interface whose RW pin was high.
C26_Witness ==
    /\ op[1] = "LCD"
    /\ made
    /\ setup[1] = 1
    /\ Bit(wire0, rw_bit_pos) = 1
    /\ Bit(trace[WriteAt[1]][2], rw_bit_pos) = 1
    /\ Bit(trace[WriteAt[2]][2], rw_bit_pos) = 0
    /\ Bit(byte, rw_bit_pos) = 0

\* C27: in the bytes an operation of the interface writes, whatever the control
\* byte it is entered with, a data line changes only between two bytes that both
\* have Enable low; and Enable falls only as the last step of a pulse, so that
\* each nibble is latched by exactly one falling edge.
C27_DataChangesWhileEnableLow ==
    LET wa == WriteAt
        L == LatchesIn(wa, FallsIn(wa))
        S == StrobesIn(wa)
    IN  /\ \A j \in 1..Len(wa) :
              Shr(Before(wa, j), 4) # Shr(After(wa, j), 4) =>
                  (E(Before(wa, j)) = 0 /\ E(After(wa, j)) = 0)
        /\ L = S

\* lcd.interface.initialize(...) called again on a constructed display.
Reinitialize(mode, l, ms, inc, sh) ==
    /\ Idle
    /\ made
    /\ Commit(initialize(Cur, mode, l, ms, inc, sh), "initialize", <<mode, l, ms, inc, sh>>)

\* The backlight across the operations: the interface's own, then the display's.
NextLight ==
    \/ Forget
    \/ \E b \in {0, 65, 255} : LinkSendData(b, 60)
    \/ \E b \in {0, 48, 255} : LinkSetData(b)
    \/ LinkPulse
    \/ \E bl \in Bool, skip \in Bool : Construct(2, 0, bl, 1, 1, 1, skip, 0, 1, 0, <<>>)
    \/ \E st \in Bool : SetBacklightEnabled(st)
    \/ \E i \in {None, 0} : WriteChar(65, i)
    \/ Clear
    \/ \E i \in {0, 16} : SetCursor(i)
    \/ \E st \in Bool : SetDisplayEnabled(st)
    \/ \E st \in Bool : SetCursorEnabled(st)
    \/ \E st \in Bool : SetCursorBlinkingEnabled(st)
    \/ Reinitialize(0, 1, 0, 1, 0)

SpecLight == Init /\ [][NextLight]_vars

\* C28: send_data, _set_data and _pulse_enable_signal write no byte whose RS, RW
\* or backlight bit differs from what it was when they were called; and on a
\* display, every byte written by write_char, clear, set_cursor, a Display-Control
\* setter or a new initialize() carries the backlight bit that the last
\* backlight_enabled assignment gave, as does every byte written by that
\* assignment itself.
C28_BacklightIsPreserved ==
    LET wa == WriteAt
    IN  /\ op[1] \in {"send_data", "_set_data", "_pulse_enable_signal"} =>
              \A j \in 1..Len(wa) : After(wa, j) % 16 = WithBit(wire0 % 16, e_bit_pos, E(After(wa, j)))
        /\ (made /\ op[1] # "LCD") =>
              /\ \A j \in 1..Len(wa) : Bit(After(wa, j), a_bit_pos) = backlight_enabled
              /\ op[1] = "backlight_enabled" => backlight_enabled = op[2][1]
              /\ op[1] # "backlight_enabled" => backlight_enabled = self0.backlight_enabled
        /\ made => Bit(byte, a_bit_pos) = backlight_enabled

\* initialize() run again on a display whose backlight had been switched off.
C28_Witness ==
    /\ op[1] = "initialize"
    /\ made
    /\ backlight_enabled = 0
    /\ Len(WriteAt) = 50
    /\ \A j \in 1..Len(WriteAt) : Bit(trace[WriteAt[j]][2], a_bit_pos) = 0

\* C29: when the bus fails during a setter, clear(), set_cursor() or
\* write_char(), the four flags, the logical cursor and the text are what they
\* were before the call.
C29_FailureLeavesLocalState ==
    (made /\ err = "OSError"
          /\ op[1] \in Setters \cup {"backlight_enabled", "clear", "set_cursor", "write_char"}) =>
        Self = self0

(***************************************************************************)
(* Two callers inside send_data at once.  The interface has no lock, so a  *)
(* second thread can run between any two bus writes of the first.  A step  *)
(* of a caller is the code of send_data from just after one                *)
(* bus.write_byte up to and including the next; send_data makes eight.     *)
(* _byte is shared by the callers, conf_bits is a local of each call.      *)
(***************************************************************************)
\* Bytes the two callers send: 'A' by the first, 0x28 or 0xFE by the second.
FirstBytes == {65}
SecondBytes == {40, 254}

Returned == 9

\* Step pc of send_data(b, us) by a caller whose conf_bits are conf.
SendDataStep(io, pc, b, conf, us) ==
    CASE pc = 1 -> _write([io EXCEPT !.byte = BitOr(BitAnd(240, b), BitAnd(15, io.byte))])
      [] pc = 5 -> _write([io EXCEPT !.byte = BitOr(Shl(BitAnd(15, b), 4), conf)])
      [] pc \in {2, 6} -> delay(_write(_set_bit(io, io.wiring.e_bit_pos, 0)), 1)
      [] pc \in {3, 7} -> delay(_write(_set_bit(io, io.wiring.e_bit_pos, 1)), 1)
      [] pc = 4 -> _write(_set_bit(io, io.wiring.e_bit_pos, 0))
      [] pc = 8 -> delay(_write(_set_bit(io, io.wiring.e_bit_pos, 0)), us)

\* Two threads call send_data(b1) and send_data(b2) on the one interface.
BeginCalls(b1, b2) ==
    /\ Idle
    /\ ~made
    /\ calls' = <<[pc |-> 1, b |-> b1, conf_bits |-> 0, alone |-> TRUE],
                  [pc |-> 1, b |-> b2, conf_bits |-> 0, alone |-> TRUE]>>
    /\ op' = <<"send_data || send_data", <<b1, b2>>>>
    /\ trace' = <<>>
    /\ wire0' = byte
    /\ err' = "none"
    /\ prev' = <<>>
    /\ self0' = Self
    /\ UNCHANGED <<byte, wiring, lcdvars>>

\* Caller t runs up to its next bus write.  `alone` stays true for a caller no
\* step of which was taken while the other call was under way.
StepCall(t) ==
    /\ op[1] = "send_data || send_data"
    /\ calls[t].pc < Returned
    /\ LET c == calls[t]
           io == SendDataStep([Cur EXCEPT !.out = trace], c.pc, c.b, c.conf_bits, 60)
       IN  /\ byte' = io.byte
           /\ trace' = io.out
           /\ calls' = [calls EXCEPT ![t] =
                           [c EXCEPT !.pc = c.pc + 1,
                                     !.conf_bits = IF c.pc = 1 THEN BitAnd(15, byte) ELSE c.conf_bits,
                                     !.alone = c.alone /\ calls[3 - t].pc \in {1, Returned}]]
    /\ UNCHANGED <<wiring, wire0, op, err, prev, self0, lcdvars>>

\* Both calls have returned and their record is dropped.
ForgetCalls ==
    /\ op[1] = "send_data || send_data" => \A t \in 1..2 : calls[t].pc = Returned
    /\ Forget

NextRace ==
    \/ ForgetCalls
    \/ \E b1 \in FirstBytes, b2 \in SecondBytes : BeginCalls(b1, b2)
    \/ StepCall(1)
    \/ StepCall(2)

SpecRace == Init /\ [][NextRace]_vars

BothReturned == op[1] = "send_data || send_data" /\ \A t \in 1..2 : calls[t].pc = Returned
Serially == \A t \in 1..2 : calls[t].alone

\* The latched nibbles belong, two by two, to one caller's byte each, high
\* nibble first, and every one was latched with RS as it was before the calls.
LatchedWhole(L) ==
    /\ Len(L) % 2 = 0
    /\ \A i \in 1..(Len(L) \div 2) :
          \E t \in 1..2 : /\ L[2 * i - 1].data = HighNibble(calls[t].b)
                          /\ L[2 * i].data = LowNibble(calls[t].b)
    /\ \A i \in 1..Len(L) : L[i].rs = Bit(wire0, rs_bit_pos)

\* C30: when two send_data calls on the same interface are made one after the
\* other, the controller latches the two bytes whole: every pair of nibbles it
\* latches is the high and the low nibble of one caller's byte, with RS
\* unchanged.  (That interleaved calls can break this is C30_Torn.)
C30_SerialCallsLatchWhole ==
    (BothReturned /\ Serially) => LatchedWhole(Latches)

\* Interleaved between bus writes and entered with Enable low, two calls have
\* returned and the controller has latched a pair of nibbles that is neither
\* caller's byte.
C30_Torn ==
    /\ BothReturned
    /\ ~Serially
    /\ E(wire0) = 0
    /\ Len(Latches) = 4
    /\ ~LatchedWhole(Latches)

====
